---- MODULE Spec2Model ----
(***************************************************************************)
(* Benchmark drivers of evmts/guillotine:                                  *)
(*   - the revm runner      (bench/official/evms/revm/src/main.rs)         *)
(*   - the crypto runner    (bench/official/src/crypto/rust/src/main.rs)   *)
(* Each behaviour is one process execution (prog = "revm", "crypto") or    *)
(* one call of a function on drawn inputs (prog = "deploy" for             *)
(* deploy_contract, prog = "bench" for benchmark_operation).               *)
(***************************************************************************)
EXTENDS Integers, Sequences, FiniteSets, TLC

(***************************************************************************)
(* Bounds of the model.                                                    *)
(***************************************************************************)
\* longest user argument list of the revm runner (tokens after argv[0])
MaxArgs == 6
\* largest internal_runs drawn when benchmark_operation is called directly
MaxInternalRuns == 3
\* largest --num-runs value drawn for the crypto runner
MaxNumRuns == 3

(***************************************************************************)
(* Strings.  A Rust String is modelled by the sequence of its characters;  *)
(* command-line tokens are named by TLA+ strings and Chars gives the       *)
(* characters of each.                                                     *)
(***************************************************************************)
Chars(tok) ==
  CASE tok = "" -> <<>>
    [] tok = "--contract-code-path" ->
         <<"-","-","c","o","n","t","r","a","c","t","-","c","o","d","e","-","p","a","t","h">>
    [] tok = "--calldata" -> <<"-","-","c","a","l","l","d","a","t","a">>
    [] tok = "--num-runs" -> <<"-","-","n","u","m","-","r","u","n","s">>
    [] tok = "code.hex" -> <<"c","o","d","e",".","h","e","x">>
    [] tok = "02" -> <<"0","2">>
    [] tok = "256" -> <<"2","5","6">>
    [] tok = "0" -> <<"0">>
    [] tok = "1" -> <<"1">>
    [] tok = "2" -> <<"2">>
    [] tok = "3" -> <<"3">>
    [] tok = "4" -> <<"4">>
    [] tok = "+1" -> <<"+","1">>
    [] tok = "-1" -> <<"-","1">>
    [] tok = "abc" -> <<"a","b","c">>
    [] tok = "4294967296" -> <<"4","2","9","4","9","6","7","2","9","6">>
    [] tok = "0x600a\n" -> <<"0","x","6","0","0","a","\n">>
    [] tok = "0xZZ" -> <<"0","x","Z","Z">>
    [] tok = " 0x0xFF " -> <<" ","0","x","0","x","F","F"," ">>

DigitChars == <<"0","1","2","3","4","5","6","7","8","9">>
LowerHex == <<"a","b","c","d","e","f">>
UpperHex == <<"A","B","C","D","E","F">>

IndexOf(seq, c) ==
  IF \E k \in 1..Len(seq) : seq[k] = c
    THEN CHOOSE k \in 1..Len(seq) : seq[k] = c
    ELSE 0

\* value of a decimal digit, -1 for any other character
DigitVal(c) == IndexOf(DigitChars, c) - 1

\* value of a hex digit (either case), -1 for any other character
HexVal(c) ==
  IF IndexOf(DigitChars, c) > 0 THEN IndexOf(DigitChars, c) - 1
  ELSE IF IndexOf(LowerHex, c) > 0 THEN IndexOf(LowerHex, c) + 9
  ELSE IF IndexOf(UpperHex, c) > 0 THEN IndexOf(UpperHex, c) + 9
  ELSE -1

IsWhitespace(c) == c \in {" ", "\n", "\t", "\r"}

RECURSIVE TrimStart(_)
TrimStart(s) ==
  IF Len(s) > 0 /\ IsWhitespace(s[1]) THEN TrimStart(Tail(s)) ELSE s

RECURSIVE TrimEnd(_)
TrimEnd(s) ==
  IF Len(s) > 0 /\ IsWhitespace(s[Len(s)])
    THEN TrimEnd(SubSeq(s, 1, Len(s) - 1)) ELSE s

\* str::trim
Trim(s) == TrimEnd(TrimStart(s))

\* str::trim_start_matches("0x"): removes every leading repetition of "0x"
RECURSIVE TrimStartMatches0x(_)
TrimStartMatches0x(s) ==
  IF Len(s) >= 2 /\ s[1] = "0" /\ s[2] = "x"
    THEN TrimStartMatches0x(SubSeq(s, 3, Len(s))) ELSE s

\* Result values: [ok |-> TRUE, val |-> v] or [ok |-> FALSE, err |-> e]
Ok(v) == [ok |-> TRUE, val |-> v]
Err(e) == [ok |-> FALSE, err |-> e]

RECURSIVE HexPairs(_)
HexPairs(s) ==
  IF Len(s) = 0 THEN <<>>
  ELSE <<HexVal(s[1]) * 16 + HexVal(s[2])>> \o HexPairs(SubSeq(s, 3, Len(s)))

\* hex::decode: odd length and non-hex characters are errors
HexDecode(s) ==
  IF Len(s) % 2 # 0 THEN Err("OddLength")
  ELSE IF \E k \in 1..Len(s) : HexVal(s[k]) < 0 THEN Err("InvalidHexCharacter")
  ELSE Ok(HexPairs(s))

\* <unsigned>::from_str with maximum 10 * maxDiv10 + maxMod10: an optional
\* leading "+", then at least one decimal digit, overflow checked per digit
RECURSIVE ParseDigits(_, _, _, _)
ParseDigits(s, acc, maxDiv10, maxMod10) ==
  IF Len(s) = 0 THEN Ok(acc)
  ELSE IF DigitVal(s[1]) < 0 THEN Err("InvalidDigit")
  ELSE IF acc > maxDiv10 \/ (acc = maxDiv10 /\ DigitVal(s[1]) > maxMod10)
    THEN Err("PosOverflow")
  ELSE ParseDigits(Tail(s), acc * 10 + DigitVal(s[1]), maxDiv10, maxMod10)

ParseUnsigned(s, maxDiv10, maxMod10) ==
  IF Len(s) = 0 THEN Err("Empty")
  ELSE IF s[1] = "+" /\ Len(s) = 1 THEN Err("InvalidDigit")
  ELSE IF s[1] = "+" THEN ParseDigits(Tail(s), 0, maxDiv10, maxMod10)
  ELSE ParseDigits(s, 0, maxDiv10, maxMod10)

\* num_runs: u8 = args[i + 1].parse()
ParseU8(s) == ParseUnsigned(s, 25, 5)

\* num_runs: u32 = ....parse()
ParseU32(s) == ParseUnsigned(s, 429496729, 5)

(***************************************************************************)
(* usize values.  A usize is kept as two limbs, value = hi * 65536 + lo    *)
(* with 0 <= lo < 65536, so that lengths up to and beyond 0xFFFFFFFF are   *)
(* computed exactly.                                                       *)
(***************************************************************************)
U(h, l) == [hi |-> h, lo |-> l]

ToUsize(n) == U(n \div 65536, n % 65536)

ULeq(a, b) == a.hi < b.hi \/ (a.hi = b.hi /\ a.lo <= b.lo)

UAddSmall(a, n) ==
  U(a.hi + (a.lo + n) \div 65536, (a.lo + n) % 65536)

\* (v >> k) as u8 for k in {0, 8, 16, 24}; `as u8` keeps the low 8 bits
ShrAsU8(v, k) ==
  CASE k = 0 -> v.lo % 256
    [] k = 8 -> (v.lo \div 256) % 256
    [] k = 16 -> v.hi % 256
    [] k = 24 -> (v.hi \div 256) % 256

X_FF == U(0, 255)
X_FFFF == U(0, 65535)
X_FFFFFF == U(255, 65535)
X_FFFFFFFF == U(65535, 65535)

(***************************************************************************)
(* deploy_contract: the constructor                                        *)
(***************************************************************************)
\* PUSH runtime_size (for CODECOPY size)
FirstSizePushBoundaryOffByOne(runtime_size) ==
  IF ULeq(runtime_size, U(0, 256)) THEN
    Ok(<<96, ShrAsU8(runtime_size, 0)>>)
  ELSE IF ULeq(runtime_size, X_FFFF) THEN
    Ok(<<97, ShrAsU8(runtime_size, 8), ShrAsU8(runtime_size, 0)>>)
  ELSE IF ULeq(runtime_size, X_FFFFFF) THEN
    Ok(<<98, ShrAsU8(runtime_size, 16), ShrAsU8(runtime_size, 8),
         ShrAsU8(runtime_size, 0)>>)
  ELSE IF ULeq(runtime_size, X_FFFFFFFF) THEN
    Ok(<<99, ShrAsU8(runtime_size, 24), ShrAsU8(runtime_size, 16),
         ShrAsU8(runtime_size, 8), ShrAsU8(runtime_size, 0)>>)
  ELSE Err("Runtime code too large")

FirstSizePush(runtime_size) ==
  IF ULeq(runtime_size, X_FF) THEN
    Ok(<<96, ShrAsU8(runtime_size, 0)>>)
  ELSE IF ULeq(runtime_size, X_FFFF) THEN
    Ok(<<97, ShrAsU8(runtime_size, 8), ShrAsU8(runtime_size, 0)>>)
  ELSE IF ULeq(runtime_size, X_FFFFFF) THEN
    Ok(<<98, ShrAsU8(runtime_size, 16), ShrAsU8(runtime_size, 8),
         ShrAsU8(runtime_size, 0)>>)
  ELSE IF ULeq(runtime_size, X_FFFFFFFF) THEN
    Ok(<<99, ShrAsU8(runtime_size, 24), ShrAsU8(runtime_size, 16),
         ShrAsU8(runtime_size, 8), ShrAsU8(runtime_size, 0)>>)
  ELSE Err("Runtime code too large")

\* bytes added for the second PUSH instruction (for RETURN size)
SecondPushBytes(runtime_size) ==
  IF ULeq(runtime_size, X_FF) THEN 2
  ELSE IF ULeq(runtime_size, X_FFFF) THEN 3
  ELSE IF ULeq(runtime_size, X_FFFFFF) THEN 4
  ELSE 5

\* bytes added for the offset PUSH instruction itself
OffsetPushBytes(size_before) ==
  IF size_before <= 255 THEN 2 ELSE 3

\* constructor_size: where the runtime code will be
ConstructorSizeForgetsReturn(first_len, runtime_size) ==
  LET before == first_len + (1 + 1) + 1 + SecondPushBytes(runtime_size)
                  + (1 + 1)
  IN  before + OffsetPushBytes(before)

ConstructorSize(first_len, runtime_size) ==
  LET before == first_len + (1 + 1) + 1 + SecondPushBytes(runtime_size)
                  + (1 + 1) + 1
  IN  before + OffsetPushBytes(before)

\* PUSH offset (where runtime code starts)
OffsetPush(constructor_size) ==
  IF constructor_size <= 255 THEN
    Ok(<<96, constructor_size % 256>>)
  ELSE IF constructor_size <= 65535 THEN
    Ok(<<97, (constructor_size \div 256) % 256, constructor_size % 256>>)
  ELSE Err("Constructor too large")

\* PUSH runtime_size (for RETURN size)
SecondSizePush(runtime_size) ==
  IF ULeq(runtime_size, X_FF) THEN
    <<96, ShrAsU8(runtime_size, 0)>>
  ELSE IF ULeq(runtime_size, X_FFFF) THEN
    <<97, ShrAsU8(runtime_size, 8), ShrAsU8(runtime_size, 0)>>
  ELSE IF ULeq(runtime_size, X_FFFFFF) THEN
    <<98, ShrAsU8(runtime_size, 16), ShrAsU8(runtime_size, 8),
      ShrAsU8(runtime_size, 0)>>
  ELSE
    <<99, ShrAsU8(runtime_size, 24), ShrAsU8(runtime_size, 16),
      ShrAsU8(runtime_size, 8), ShrAsU8(runtime_size, 0)>>

\* constructor_code as it stands before deployment_code is assembled
ConstructorCode(runtime_size) ==
  LET first == FirstSizePush(runtime_size) IN
  IF ~first.ok THEN first
  ELSE
    LET offset == OffsetPush(ConstructorSize(Len(first.val), runtime_size)) IN
    IF ~offset.ok THEN offset
    ELSE Ok(first.val \o offset.val \o <<96, 0>> \o <<57>>
              \o SecondSizePush(runtime_size) \o <<96, 0>> \o <<243>>)

(***************************************************************************)
(* Byte buffers.  A buffer is [len, data]: len is its length as a usize    *)
(* and data its bytes.  The buffers read from files hold all their bytes;  *)
(* a buffer drawn as input of deploy_contract with a length that no        *)
(* sequence of the model reaches holds its leading bytes only.             *)
(***************************************************************************)
Buffer(bytes) == [len |-> ToUsize(Len(bytes)), data |-> bytes]

\* deployment_code = constructor_code; deployment_code.extend_from_slice(bytecode)
DeploymentCode(constructor_code, bytecode) ==
  [len |-> UAddSmall(bytecode.len, Len(constructor_code)),
   data |-> constructor_code \o bytecode.data]

\* deploy_contract(db, caller, bytecode); evm_outcome is what
\* evm.transact_commit() answers: "created" stands for
\* Ok(Success { output: Create(_, Some(address)) }), "failed" for the rest
DeployContract(bytecode, evm_outcome) ==
  LET ctor == ConstructorCode(bytecode.len) IN
  IF ~ctor.ok THEN [result |-> ctor, tx |-> <<>>]
  ELSE [result |-> IF evm_outcome = "created" THEN Ok("contract_address")
                   ELSE Err("Contract creation failed"),
        tx |-> <<DeploymentCode(ctor.val, bytecode)>>]

(***************************************************************************)
(* State                                                                   *)
(***************************************************************************)
VARIABLES
  prog,               \* which program (or function) this behaviour runs
  pc,                 \* position in it
  status,             \* "running", or how the process ended
  failure,            \* what ended it, when it did not end normally
  stdout,             \* lines printed to stdout
  stderr,             \* lines printed to stderr by the program itself
  trace,              \* the steps taken, in order
  args,               \* revm: env::args()
  i,                  \* revm: index of the parse loop; bench: loop index
  contract_code_path, \* revm
  calldata_hex,       \* revm
  num_runs,           \* revm (u8) and crypto (u32)
  run,                \* iterations of the benchmark loop of main done so far
  contract_code,      \* revm: decoded bytes; deploy: the bytecode argument
  calldata,           \* revm: decoded bytes
  db,                 \* revm: what has been committed to the CacheDB, in order
  deployed,           \* what deploy_contract did: <<>> or <<its outcome>>
  evm_builds,         \* revm: Evm instances built by main
  pending,            \* revm: result.state of the last transact, not yet committed
  seen,               \* revm: the db each transact executed against
  operation_arg,      \* crypto: the --operation value given, <<>> if none
  num_runs_arg,       \* crypto: the --num-runs value given, <<>> if none
  operation,          \* crypto, bench
  internal_runs,      \* crypto, bench
  rng,                \* bench: values drawn from test_rng() so far
  inputs_a,           \* bench: first operand vector
  inputs_b,           \* bench: second operand vector
  calls               \* bench: the operand pairs the operation was applied to

vars == <<prog, pc, status, failure, stdout, stderr, trace, args, i,
          contract_code_path, calldata_hex, num_runs, run, contract_code,
          calldata, db, deployed, evm_builds, pending, seen, operation_arg,
          num_runs_arg, operation, internal_runs, rng, inputs_a, inputs_b,
          calls>>

revmVars == <<args, i, contract_code_path, calldata_hex, contract_code,
              calldata, db, deployed, evm_builds, pending, seen>>
cryptoVars == <<operation_arg, num_runs_arg>>
benchVars == <<rng, inputs_a, inputs_b, calls>>
outVars == <<stdout, stderr>>

(***************************************************************************)
(* Inputs                                                                  *)
(***************************************************************************)
Flags == {"--contract-code-path", "--calldata", "--num-runs"}

\* the tokens the revm argument lists are drawn from
Tokens == Flags \cup {"02", "256"}

ArgLists == UNION {[1..n -> Tokens] : n \in 0..MaxArgs}

\* what a file may hold
FileContents == {"0x600a\n", "0xZZ", " 0x0xFF ", ""}

\* fs::read_to_string(path): the empty path is never readable; any other
\* path is unreadable or holds one of FileContents
ReadToString(path) ==
  IF path = "" THEN {Err("NotFound")}
  ELSE {Err("NotFound")} \cup {Ok(Chars(c)) : c \in FileContents}

(***************************************************************************)
(* How a process ends                                                      *)
(***************************************************************************)
\* a panic: the process aborts with exit code 101
Panic(kind) ==
  /\ status' = "panic"
  /\ failure' = kind
  /\ pc' = "done"

Running == status = "running"

(***************************************************************************)
(* revm runner: main                                                       *)
(***************************************************************************)
\* Rust's args[k]
Arg(k) == args[k + 1]

\* i += 2, at the end of each flag's arm
AfterFlagSkipsOne(index) == index + 1

AfterFlag(index) == index + 2

\* 0..num_runs still has an element: the benchmark loop goes on
RevmLoopInclusive(done, n) == done <= n

RevmLoopContinues(done, n) == done < n

\* db.commit(result.state)
CommitDropsState(database, state) == database

CommitState(database, state) == database \o state

\* "--contract-code-path" => { contract_code_path = args[i + 1].clone(); i += 2; }
ParseContractCodePath ==
  /\ prog = "revm" /\ Running /\ pc = "parse"
  /\ i < Len(args)
  /\ Arg(i) = "--contract-code-path"
  /\ IF i + 1 < Len(args)
       THEN /\ contract_code_path' = Arg(i + 1)
            /\ i' = AfterFlag(i)
            /\ UNCHANGED <<pc, status, failure>>
       ELSE /\ Panic("index out of bounds")
            /\ UNCHANGED <<contract_code_path, i>>
  /\ trace' = Append(trace, "parse")
  /\ UNCHANGED <<args, calldata_hex, num_runs, run, contract_code, calldata,
                 db, deployed, evm_builds, pending, seen, operation,
                 internal_runs>>
  /\ UNCHANGED <<cryptoVars, benchVars, outVars, prog>>

\* "--calldata" => { calldata_hex = args[i + 1].clone(); i += 2; }
ParseCalldata ==
  /\ prog = "revm" /\ Running /\ pc = "parse"
  /\ i < Len(args)
  /\ Arg(i) = "--calldata"
  /\ IF i + 1 < Len(args)
       THEN /\ calldata_hex' = Arg(i + 1)
            /\ i' = AfterFlag(i)
            /\ UNCHANGED <<pc, status, failure>>
       ELSE /\ Panic("index out of bounds")
            /\ UNCHANGED <<calldata_hex, i>>
  /\ trace' = Append(trace, "parse")
  /\ UNCHANGED <<args, contract_code_path, num_runs, run, contract_code,
                 calldata, db, deployed, evm_builds, pending, seen, operation,
                 internal_runs>>
  /\ UNCHANGED <<cryptoVars, benchVars, outVars, prog>>

\* "--num-runs" => { num_runs = args[i + 1].parse().unwrap(); i += 2; }
ParseNumRuns ==
  /\ prog = "revm" /\ Running /\ pc = "parse"
  /\ i < Len(args)
  /\ Arg(i) = "--num-runs"
  /\ IF i + 1 >= Len(args)
       THEN /\ Panic("index out of bounds")
            /\ UNCHANGED <<num_runs, i>>
       ELSE LET parsed == ParseU8(Chars(Arg(i + 1))) IN
            IF parsed.ok
              THEN /\ num_runs' = parsed.val
                   /\ i' = AfterFlag(i)
                   /\ UNCHANGED <<pc, status, failure>>
              ELSE /\ Panic("unwrap")
                   /\ UNCHANGED <<num_runs, i>>
  /\ trace' = Append(trace, "parse")
  /\ UNCHANGED <<args, contract_code_path, calldata_hex, run, contract_code,
                 calldata, db, deployed, evm_builds, pending, seen, operation,
                 internal_runs>>
  /\ UNCHANGED <<cryptoVars, benchVars, outVars, prog>>

\* _ => i += 1
ParseOther ==
  /\ prog = "revm" /\ Running /\ pc = "parse"
  /\ i < Len(args)
  /\ Arg(i) \notin Flags
  /\ i' = i + 1
  /\ trace' = Append(trace, "parse")
  /\ UNCHANGED <<args, contract_code_path, calldata_hex, num_runs, run,
                 contract_code, calldata, db, deployed, evm_builds, pending,
                 seen, operation, internal_runs, pc, status, failure>>
  /\ UNCHANGED <<cryptoVars, benchVars, outVars, prog>>

\* the loop condition fails: on to Address::from_str(CALLER_ADDRESS).unwrap(),
\* which succeeds for the constant, and to reading the contract code
ParseDone ==
  /\ prog = "revm" /\ Running /\ pc = "parse"
  /\ ~(i < Len(args))
  /\ pc' = "read"
  /\ trace' = Append(trace, "parse_done")
  /\ UNCHANGED <<status, failure, num_runs, run, operation, internal_runs>>
  /\ UNCHANGED <<revmVars, cryptoVars, benchVars, outVars, prog>>

\* fs::read_to_string(&contract_code_path).unwrap().trim(), then
\* hex::decode(contract_code_hex.trim_start_matches("0x")).unwrap()
ReadContractCode ==
  /\ prog = "revm" /\ Running /\ pc = "read"
  /\ \E file \in ReadToString(contract_code_path) :
       IF ~file.ok
         THEN /\ Panic("unwrap")
              /\ UNCHANGED contract_code
         ELSE LET decoded == HexDecode(TrimStartMatches0x(Trim(file.val))) IN
              IF decoded.ok
                THEN /\ contract_code' = Buffer(decoded.val)
                     /\ pc' = "decode_calldata"
                     /\ UNCHANGED <<status, failure>>
                ELSE /\ Panic("unwrap")
                     /\ UNCHANGED contract_code
  /\ trace' = Append(trace, "read")
  /\ UNCHANGED <<args, i, contract_code_path, calldata_hex, num_runs, run,
                 calldata, db, deployed, evm_builds, pending, seen, operation,
                 internal_runs>>
  /\ UNCHANGED <<cryptoVars, benchVars, outVars, prog>>

\* hex::decode(calldata_hex.trim_start_matches("0x")).unwrap(), then the
\* CacheDB with the caller's account
DecodeCalldata ==
  /\ prog = "revm" /\ Running /\ pc = "decode_calldata"
  /\ LET decoded == HexDecode(TrimStartMatches0x(Chars(calldata_hex))) IN
     IF decoded.ok
       THEN /\ calldata' = decoded.val
            /\ db' = <<"caller">>
            /\ pc' = "deploy"
            /\ UNCHANGED <<status, failure>>
       ELSE /\ Panic("unwrap")
            /\ UNCHANGED <<calldata, db>>
  /\ trace' = Append(trace, "decode_calldata")
  /\ UNCHANGED <<args, i, contract_code_path, calldata_hex, num_runs, run,
                 contract_code, deployed, evm_builds, pending, seen,
                 operation, internal_runs>>
  /\ UNCHANGED <<cryptoVars, benchVars, outVars, prog>>

\* deploy_contract(&mut db, caller_address, &contract_code).unwrap()
Deploy ==
  /\ prog = "revm" /\ Running /\ pc = "deploy"
  /\ \E evm_outcome \in {"created", "failed"} :
       LET d == DeployContract(contract_code, evm_outcome) IN
       /\ deployed' = Append(deployed, d)
       /\ IF d.result.ok
            THEN /\ db' = Append(db, "deploy")
                 /\ pc' = "build_evm"
                 /\ UNCHANGED <<status, failure>>
            ELSE /\ Panic("unwrap")
                 /\ UNCHANGED db
  /\ trace' = Append(trace, "deploy")
  /\ UNCHANGED <<args, i, contract_code_path, calldata_hex, num_runs, run,
                 contract_code, calldata, evm_builds, pending, seen,
                 operation, internal_runs>>
  /\ UNCHANGED <<cryptoVars, benchVars, outVars, prog>>

\* Evm::builder().with_db(&mut db)....build()
BuildEvm ==
  /\ prog = "revm" /\ Running /\ pc = "build_evm"
  /\ evm_builds' = evm_builds + 1
  /\ pc' = "loop"
  /\ trace' = Append(trace, "build_evm")
  /\ UNCHANGED <<args, i, contract_code_path, calldata_hex, num_runs, run,
                 contract_code, calldata, db, deployed, pending, seen,
                 operation, internal_runs, status, failure>>
  /\ UNCHANGED <<cryptoVars, benchVars, outVars, prog>>

\* for _ in 0..num_runs { let timer = Instant::now();
RunTimerStart ==
  /\ prog = "revm" /\ Running /\ pc = "loop"
  /\ RevmLoopContinues(run, num_runs)
  /\ pc' = "transact"
  /\ trace' = Append(trace, "timer_start")
  /\ UNCHANGED <<num_runs, run, operation, internal_runs, status, failure>>
  /\ UNCHANGED <<revmVars, cryptoVars, benchVars, outVars, prog>>

\* let result = evm.transact().unwrap();
RunTransact ==
  /\ prog = "revm" /\ Running /\ pc = "transact"
  /\ \E ok \in BOOLEAN :
       IF ok
         THEN /\ pending' = <<"run">>
              /\ pc' = "elapsed"
              /\ UNCHANGED <<status, failure>>
         ELSE /\ Panic("unwrap")
              /\ UNCHANGED pending
  /\ seen' = Append(seen, db)
  /\ trace' = Append(trace, "transact")
  /\ UNCHANGED <<args, i, contract_code_path, calldata_hex, num_runs, run,
                 contract_code, calldata, db, deployed, evm_builds,
                 operation, internal_runs>>
  /\ UNCHANGED <<cryptoVars, benchVars, outVars, prog>>

\* let dur = timer.elapsed();
RunElapsed ==
  /\ prog = "revm" /\ Running /\ pc = "elapsed"
  /\ pc' = "commit"
  /\ trace' = Append(trace, "elapsed")
  /\ UNCHANGED <<num_runs, run, operation, internal_runs, status, failure>>
  /\ UNCHANGED <<revmVars, cryptoVars, benchVars, outVars, prog>>

\* evm.context.evm.db.commit(result.state);
RunCommit ==
  /\ prog = "revm" /\ Running /\ pc = "commit"
  /\ db' = CommitState(db, pending)
  /\ pending' = <<>>
  /\ pc' = "print"
  /\ trace' = Append(trace, "commit")
  /\ UNCHANGED <<args, i, contract_code_path, calldata_hex, num_runs, run,
                 contract_code, calldata, deployed, evm_builds, seen,
                 operation, internal_runs, status, failure>>
  /\ UNCHANGED <<cryptoVars, benchVars, outVars, prog>>

\* println!("{}", dur.as_micros() as f64 / 1e3); }
RunPrint ==
  /\ prog = "revm" /\ Running /\ pc = "print"
  /\ stdout' = Append(stdout, "ms")
  /\ run' = run + 1
  /\ pc' = "loop"
  /\ trace' = Append(trace, "print")
  /\ UNCHANGED <<num_runs, operation, internal_runs, status, failure, stderr>>
  /\ UNCHANGED <<revmVars, cryptoVars, benchVars, prog>>

\* the range 0..num_runs is exhausted and main returns
RevmExit ==
  /\ prog = "revm" /\ Running /\ pc = "loop"
  /\ ~RevmLoopContinues(run, num_runs)
  /\ status' = "exit0"
  /\ pc' = "done"
  /\ trace' = Append(trace, "exit")
  /\ UNCHANGED <<num_runs, run, operation, internal_runs, failure>>
  /\ UNCHANGED <<revmVars, cryptoVars, benchVars, outVars, prog>>

RevmNext ==
  \/ ParseContractCodePath \/ ParseCalldata \/ ParseNumRuns \/ ParseOther
  \/ ParseDone \/ ReadContractCode \/ DecodeCalldata \/ Deploy \/ BuildEvm
  \/ RunTimerStart \/ RunTransact \/ RunElapsed \/ RunCommit \/ RunPrint
  \/ RevmExit

(***************************************************************************)
(* deploy_contract called on a drawn bytecode                              *)
(***************************************************************************)
\* runtime sizes around every width boundary, and beyond 0xFFFFFFFF
SizeInputs ==
  {U(0, 0), U(0, 1), U(0, 2), U(0, 255), U(0, 256), U(0, 257), U(0, 65535),
   U(1, 0), U(1, 1), U(255, 65535), U(256, 0), U(256, 1), U(4660, 22136),
   U(65535, 65534), U(65535, 65535), U(65536, 0), U(65536, 1), U(131072, 7)}

\* a bytecode of the given length: JUMPDEST STOP STOP ..., of which the
\* first two bytes are kept
BytecodeOfSize(size) ==
  [len |-> size,
   data |-> IF size = U(0, 0) THEN <<>>
            ELSE IF size = U(0, 1) THEN <<91>>
            ELSE <<91, 0>>]

\* let r = deploy_contract(&mut db, caller, bytecode)
DeployCall ==
  /\ prog = "deploy" /\ Running /\ pc = "deploy_call"
  /\ \E evm_outcome \in {"created", "failed"} :
       LET d == DeployContract(contract_code, evm_outcome) IN
       /\ deployed' = Append(deployed, d)
       /\ db' = IF d.result.ok THEN Append(db, "deploy") ELSE db
  /\ status' = "returned"
  /\ pc' = "done"
  /\ trace' = Append(trace, "deploy")
  /\ UNCHANGED <<args, i, contract_code_path, calldata_hex, num_runs, run,
                 contract_code, calldata, evm_builds, pending, seen,
                 operation, internal_runs, failure>>
  /\ UNCHANGED <<cryptoVars, benchVars, outVars, prog>>

(***************************************************************************)
(* crypto runner: the three places that name the operations                *)
(***************************************************************************)
\* .value_parser([...]) of --operation
ValueParserWithExtraName ==
  {"FpMont.add", "FpMont.mul", "Fp2Mont.mul", "Fp6Mont.mul", "Fp12Mont.mul",
   "G1.add", "G1.mul", "G2.add", "G2.mul", "Pairing", "Fr.mul"}

ValueParserOperations ==
  {"FpMont.add", "FpMont.mul", "Fp2Mont.mul", "Fp6Mont.mul", "Fp12Mont.mul",
   "G1.add", "G1.mul", "G2.add", "G2.mul", "Pairing"}

\* the arms of `match operation` in benchmark_operation
BenchArmsWithoutPairing ==
  {"FpMont.add", "FpMont.mul", "Fp2Mont.mul", "Fp6Mont.mul", "Fp12Mont.mul",
   "G1.add", "G1.mul", "G2.add", "G2.mul"}

BenchArms ==
  {"FpMont.add", "FpMont.mul", "Fp2Mont.mul", "Fp6Mont.mul", "Fp12Mont.mul",
   "G1.add", "G1.mul", "G2.add", "G2.mul", "Pairing"}

\* the entries of `match operation.as_str()` in main
InternalRunsEntries ==
  {"FpMont.add", "FpMont.mul", "Fp2Mont.mul", "Fp6Mont.mul", "Fp12Mont.mul",
   "G1.add", "G1.mul", "G2.add", "G2.mul", "Pairing"}

\* let internal_runs: usize = match operation.as_str() { ... _ => 1000 }
InternalRunsFor(op) ==
  CASE op = "FpMont.add" -> 400000
    [] op = "FpMont.mul" -> 200000
    [] op = "Fp2Mont.mul" -> 100000
    [] op = "Fp6Mont.mul" -> 20000
    [] op = "Fp12Mont.mul" -> 10000
    [] op = "G1.add" -> 40000
    [] op = "G1.mul" -> 2000
    [] op = "G2.add" -> 20000
    [] op = "G2.mul" -> 800
    [] op = "Pairing" -> 200
    [] OTHER -> 1000

\* whether the entry taken for op is the fallback `_ => 1000`
TakesFallback(op) == op \notin InternalRunsEntries

\* element types of the two operand vectors of each arm
OperandTypes(op) ==
  CASE op = "FpMont.add" -> <<"Fq", "Fq">>
    [] op = "FpMont.mul" -> <<"Fq", "Fq">>
    [] op = "Fp2Mont.mul" -> <<"Fq2", "Fq2">>
    [] op = "Fp6Mont.mul" -> <<"Fq6", "Fq6">>
    [] op = "Fp12Mont.mul" -> <<"Fq12", "Fq12">>
    [] op = "G1.add" -> <<"G1", "G1">>
    [] op = "G1.mul" -> <<"G1", "Fr">>
    [] op = "G2.add" -> <<"G2", "G2">>
    [] op = "G2.mul" -> <<"G2", "Fr">>
    [] op = "Pairing" -> <<"G1Affine", "G2Affine">>

\* the library operation each arm times
ArmOperator(op) ==
  CASE op \in {"FpMont.add", "G1.add", "G2.add"} -> "+"
    [] op = "Pairing" -> "Bn254::pairing"
    [] OTHER -> "*"

\* how a call of benchmark_operation(op, n) ends: it returns the elapsed
\* milliseconds, or takes the `_` arm (eprintln!, std::process::exit(1))
BenchmarkOperationOutcome(op) ==
  IF op \in BenchArms THEN "returns" ELSE "exit1"

(***************************************************************************)
(* crypto runner: main                                                     *)
(***************************************************************************)
\* 0..num_runs still has an element: the benchmark loop goes on
CryptoLoopInclusive(done, n) == done <= n

CryptoLoopContinues(done, n) == done < n

\* the operation names drawn as --operation values
OperationInputs == ValueParserOperations \cup {"Fr.mul", "pairing"}

\* the --num-runs values drawn: 0..MaxNumRuns in decimal, and values that
\* do not parse as a u32
NumRunsInputs ==
  {<<DigitChars[n + 1]>> : n \in 0..MaxNumRuns}
    \cup {Chars("+1"), Chars("-1"), Chars("abc"), Chars("4294967296"),
          Chars("")}

\* Command::new(...).arg(...).arg(...).get_matches(): both arguments are
\* required and --operation must be one of the value_parser names; clap
\* reports anything else on stderr and exits with its usage code
GetMatches ==
  /\ prog = "crypto" /\ Running /\ pc = "get_matches"
  /\ IF /\ operation_arg # <<>>
        /\ num_runs_arg # <<>>
        /\ operation_arg[1] \in ValueParserOperations
       THEN /\ operation' = operation_arg[1]
            /\ pc' = "parse_num_runs"
            /\ UNCHANGED <<status, failure, stderr>>
       ELSE /\ stderr' = Append(stderr, "error: clap")
            /\ status' = "exit2"
            /\ failure' = "clap"
            /\ pc' = "done"
            /\ UNCHANGED operation
  /\ trace' = Append(trace, "get_matches")
  /\ UNCHANGED <<num_runs, run, internal_runs, stdout>>
  /\ UNCHANGED <<revmVars, cryptoVars, benchVars, prog>>

\* let num_runs: u32 = ....parse().expect("Invalid number of runs");
\* let internal_runs: usize = match operation.as_str() { ... };
ParseNumRunsArg ==
  /\ prog = "crypto" /\ Running /\ pc = "parse_num_runs"
  /\ LET parsed == ParseU32(num_runs_arg[1]) IN
     IF parsed.ok
       THEN /\ num_runs' = parsed.val
            /\ internal_runs' = InternalRunsFor(operation)
            /\ pc' = "loop"
            /\ UNCHANGED <<status, failure>>
       ELSE /\ Panic("expect")
            /\ UNCHANGED <<num_runs, internal_runs>>
  /\ trace' = Append(trace, "parse_num_runs")
  /\ UNCHANGED <<run, operation>>
  /\ UNCHANGED <<revmVars, cryptoVars, benchVars, outVars, prog>>

\* for _ in 0..num_runs { let elapsed_ms = benchmark_operation(operation, internal_runs);
CryptoBenchCall ==
  /\ prog = "crypto" /\ Running /\ pc = "loop"
  /\ CryptoLoopContinues(run, num_runs)
  /\ IF BenchmarkOperationOutcome(operation) = "returns"
       THEN /\ pc' = "print"
            /\ UNCHANGED <<status, failure, stderr>>
       ELSE /\ stderr' = Append(stderr, "Error: Unknown operation")
            /\ status' = "exit1"
            /\ failure' = "unknown operation"
            /\ pc' = "done"
  /\ trace' = Append(trace, "benchmark_operation")
  /\ UNCHANGED <<num_runs, run, operation, internal_runs, stdout>>
  /\ UNCHANGED <<revmVars, cryptoVars, benchVars, prog>>

\* println!("{:.6}", elapsed_ms); }
CryptoPrint ==
  /\ prog = "crypto" /\ Running /\ pc = "print"
  /\ stdout' = Append(stdout, "ms")
  /\ run' = run + 1
  /\ pc' = "loop"
  /\ trace' = Append(trace, "print")
  /\ UNCHANGED <<num_runs, operation, internal_runs, status, failure, stderr>>
  /\ UNCHANGED <<revmVars, cryptoVars, benchVars, prog>>

\* the range 0..num_runs is exhausted and main returns
CryptoExit ==
  /\ prog = "crypto" /\ Running /\ pc = "loop"
  /\ ~CryptoLoopContinues(run, num_runs)
  /\ status' = "exit0"
  /\ pc' = "done"
  /\ trace' = Append(trace, "exit")
  /\ UNCHANGED <<num_runs, run, operation, internal_runs, failure>>
  /\ UNCHANGED <<revmVars, cryptoVars, benchVars, outVars, prog>>

CryptoNext ==
  \/ GetMatches \/ ParseNumRunsArg \/ CryptoBenchCall \/ CryptoPrint
  \/ CryptoExit

(***************************************************************************)
(* benchmark_operation called on drawn arguments                           *)
(***************************************************************************)
\* let result = inputs_a[i] <op> inputs_b[i]; std::hint::black_box(result);
TimedCallReusesFirst(op, va, vb, index) ==
  [f |-> ArmOperator(op), a |-> va[1], b |-> vb[1], index |-> index]

TimedCall(op, va, vb, index) ==
  [f |-> ArmOperator(op), a |-> va[index + 1], b |-> vb[index + 1],
   index |-> index]

\* let mut rng = test_rng(); let start = match operation { ...
BenchMatch ==
  /\ prog = "bench" /\ Running /\ pc = "bench_match"
  /\ IF BenchmarkOperationOutcome(operation) = "returns"
       THEN /\ pc' = "generate"
            /\ UNCHANGED <<status, failure, stderr>>
       ELSE /\ stderr' = Append(stderr, "Error: Unknown operation")
            /\ status' = "exit1"
            /\ failure' = "unknown operation"
            /\ pc' = "done"
  /\ i' = 0
  /\ trace' = Append(trace, "match")
  /\ UNCHANGED <<args, contract_code_path, calldata_hex, num_runs, run,
                 contract_code, calldata, db, deployed, evm_builds, pending,
                 seen, operation, internal_runs, stdout>>
  /\ UNCHANGED <<cryptoVars, benchVars, prog>>

\* for _ in 0..internal_runs { inputs_a.push(T::rand(&mut rng));
\*                             inputs_b.push(T::rand(&mut rng)); }
BenchGenerate ==
  /\ prog = "bench" /\ Running /\ pc = "generate"
  /\ i < internal_runs
  /\ inputs_a' = Append(inputs_a,
                        [ty |-> OperandTypes(operation)[1], draw |-> rng])
  /\ inputs_b' = Append(inputs_b,
                        [ty |-> OperandTypes(operation)[2], draw |-> rng + 1])
  /\ rng' = rng + 2
  /\ i' = i + 1
  /\ trace' = Append(trace, "generate")
  /\ UNCHANGED <<args, contract_code_path, calldata_hex, num_runs, run,
                 contract_code, calldata, db, deployed, evm_builds, pending,
                 seen, operation, internal_runs, pc, status, failure, calls>>
  /\ UNCHANGED <<cryptoVars, outVars, prog>>

\* let start = Instant::now();
BenchTimerStart ==
  /\ prog = "bench" /\ Running /\ pc = "generate"
  /\ ~(i < internal_runs)
  /\ pc' = "timed"
  /\ i' = 0
  /\ trace' = Append(trace, "timer_start")
  /\ UNCHANGED <<args, contract_code_path, calldata_hex, num_runs, run,
                 contract_code, calldata, db, deployed, evm_builds, pending,
                 seen, operation, internal_runs, status, failure>>
  /\ UNCHANGED <<cryptoVars, benchVars, outVars, prog>>

\* for i in 0..internal_runs { let result = inputs_a[i] <op> inputs_b[i];
\*                             std::hint::black_box(result); }
BenchApply ==
  /\ prog = "bench" /\ Running /\ pc = "timed"
  /\ i < internal_runs
  /\ IF i < Len(inputs_a) /\ i < Len(inputs_b)
       THEN /\ calls' = Append(calls,
                            TimedCall(operation, inputs_a, inputs_b, i))
            /\ i' = i + 1
            /\ UNCHANGED <<pc, status, failure>>
       ELSE /\ Panic("index out of bounds")
            /\ UNCHANGED <<calls, i>>
  /\ trace' = Append(trace, "call")
  /\ UNCHANGED <<args, contract_code_path, calldata_hex, num_runs, run,
                 contract_code, calldata, db, deployed, evm_builds, pending,
                 seen, operation, internal_runs, rng, inputs_a, inputs_b>>
  /\ UNCHANGED <<cryptoVars, outVars, prog>>

\* the timed loop is over: let duration = start.elapsed();
\* duration.as_secs_f64() * 1000.0
BenchElapsed ==
  /\ prog = "bench" /\ Running /\ pc = "timed"
  /\ ~(i < internal_runs)
  /\ status' = "returned"
  /\ pc' = "done"
  /\ trace' = Append(trace, "elapsed")
  /\ UNCHANGED <<args, i, contract_code_path, calldata_hex, num_runs, run,
                 contract_code, calldata, db, deployed, evm_builds, pending,
                 seen, operation, internal_runs, failure>>
  /\ UNCHANGED <<cryptoVars, benchVars, outVars, prog>>

BenchNext ==
  \/ BenchMatch \/ BenchGenerate \/ BenchTimerStart \/ BenchApply
  \/ BenchElapsed

(***************************************************************************)
(* Specification                                                           *)
(***************************************************************************)
\* the variables a program does not use
RevmIdle ==
  /\ args = <<>> /\ contract_code_path = "" /\ calldata_hex = ""
  /\ calldata = <<>> /\ evm_builds = 0 /\ pending = <<>> /\ seen = <<>>

DeployIdle == contract_code = Buffer(<<>>) /\ db = <<>> /\ deployed = <<>>

CryptoIdle == operation_arg = <<>> /\ num_runs_arg = <<>>

BenchIdle == rng = 0 /\ inputs_a = <<>> /\ inputs_b = <<>> /\ calls = <<>>

Started ==
  /\ status = "running" /\ failure = "" /\ stdout = <<>> /\ stderr = <<>>
  /\ trace = <<>> /\ run = 0

\* main of the revm runner after its declarations (lines 12-19)
InitRevm ==
  /\ prog = "revm"
  /\ args \in {<<"revm-runner">> \o a : a \in ArgLists}
  /\ contract_code_path = "" /\ calldata_hex = "" /\ num_runs = 1 /\ i = 1
  /\ pc = "parse"
  /\ calldata = <<>> /\ evm_builds = 0 /\ pending = <<>> /\ seen = <<>>
  /\ operation = "" /\ internal_runs = 0
  /\ Started /\ DeployIdle /\ CryptoIdle /\ BenchIdle

\* deploy_contract entered with a fresh db holding the caller
InitDeploy ==
  /\ prog = "deploy"
  /\ contract_code \in {BytecodeOfSize(size) : size \in SizeInputs}
  /\ db = <<"caller">> /\ deployed = <<>>
  /\ pc = "deploy_call"
  /\ i = 0 /\ num_runs = 0 /\ operation = "" /\ internal_runs = 0
  /\ Started /\ RevmIdle /\ CryptoIdle /\ BenchIdle

\* main of the crypto runner, started with the given command line
InitCrypto ==
  /\ prog = "crypto"
  /\ operation_arg \in {<<>>} \cup {<<o>> : o \in OperationInputs}
  /\ num_runs_arg \in {<<>>} \cup {<<n>> : n \in NumRunsInputs}
  /\ pc = "get_matches"
  /\ i = 0 /\ num_runs = 0 /\ operation = "" /\ internal_runs = 0
  /\ Started /\ RevmIdle /\ DeployIdle /\ BenchIdle

\* benchmark_operation(operation, internal_runs) entered
InitBench ==
  /\ prog = "bench"
  /\ operation \in OperationInputs
  /\ internal_runs \in 0..MaxInternalRuns
  /\ pc = "bench_match"
  /\ i = 0 /\ num_runs = 0
  /\ Started /\ RevmIdle /\ DeployIdle /\ CryptoIdle /\ BenchIdle

Init == InitRevm \/ InitDeploy \/ InitCrypto \/ InitBench

Next == RevmNext \/ DeployCall \/ CryptoNext \/ BenchNext

Spec == Init /\ [][Next]_vars

(***************************************************************************)
(* Properties: vocabulary                                                  *)
(***************************************************************************)
Count(seq, x) == Cardinality({k \in DOMAIN seq : seq[k] = x})

Last(seq) == seq[Len(seq)]

SetMax(S) == CHOOSE m \in S : \A n \in S : n <= m

\* the tokens after argv[0]
UserArgs == Tail(args)

\* token k of the list a stands where a flag is looked for: it is the first
\* token, or the token before it is not a recognised flag standing where a
\* flag is looked for (whose value it would be)
RECURSIVE InFlagPosition(_, _)
InFlagPosition(a, k) ==
  IF k = 1 THEN TRUE
  ELSE ~(InFlagPosition(a, k - 1) /\ a[k - 1] \in Flags)

Occurrences(a, flag) ==
  {k \in 1..Len(a) : a[k] = flag /\ InFlagPosition(a, k)}

EveryFlagHasValue(a) ==
  \A f \in Flags : \A k \in Occurrences(a, f) : k < Len(a)

\* the token following the last occurrence of flag, if it has one
LastValue(a, flag, default) ==
  IF Occurrences(a, flag) = {} THEN default
  ELSE a[SetMax(Occurrences(a, flag)) + 1]

\* the number a string of decimal digits denotes, -1 for any other string
RECURSIVE DecimalValue(_)
DecimalValue(s) ==
  IF Len(s) = 0 THEN -1
  ELSE IF DigitVal(s[Len(s)]) < 0 THEN -1
  ELSE IF Len(s) = 1 THEN DigitVal(s[1])
  ELSE IF DecimalValue(SubSeq(s, 1, Len(s) - 1)) < 0 THEN -1
  ELSE DecimalValue(SubSeq(s, 1, Len(s) - 1)) * 10 + DigitVal(s[Len(s)])

\* the run counts asked for with --num-runs, in order
RunCountsAsked(a) ==
  {DecimalValue(Chars(a[k + 1])) : k \in Occurrences(a, "--num-runs")}

\* the run count the command line asks for: that of the last --num-runs,
\* 1 without any
RequestedRuns(a) ==
  IF Occurrences(a, "--num-runs") = {} THEN 1
  ELSE DecimalValue(Chars(LastValue(a, "--num-runs", "")))

\* the process was aborted by its environment or by invalid file, hex,
\* deployment or execution
EnvFailure ==
  status = "panic"
    /\ Last(trace) \in {"read", "decode_calldata", "deploy", "transact"}

\* the process was aborted inside the argument loop
ParseFailure == status = "panic" /\ Last(trace) = "parse"

\* every "print" of the trace comes after a "transact" of its own
PrintsFollowTransacts ==
  \A k \in DOMAIN trace :
    trace[k] = "print" =>
      \E j \in 1..(k - 1) :
        /\ trace[j] = "transact"
        /\ \A m \in (j + 1)..(k - 1) : trace[m] # "print"

\* a process that has not ended can take a step, and the steps it has taken
\* are bounded by its input
RevmProgress ==
  /\ pc # "done" => ENABLED RevmNext
  /\ Len(trace) <= Len(args) + 5 + 5 * num_runs

\* inside the argument loop every step moves the index forward
ParseProgress ==
  pc = "parse" => Len(trace) < i

(***************************************************************************)
(* C1                                                                      *)
(***************************************************************************)
\* C1 as stated: with valid inputs (a contract code path among them) and a
\* run count N given by --num-runs (1 without the flag), the revm runner
\* prints exactly N lines and exits with code zero.
C1_AnyRunCount ==
  (/\ prog = "revm" /\ pc = "done"
   /\ EveryFlagHasValue(UserArgs)
   /\ Occurrences(UserArgs, "--contract-code-path") # {}
   /\ \A n \in RunCountsAsked(UserArgs) : n >= 0
   /\ ~EnvFailure)
  => /\ status = "exit0"
     /\ Len(stdout) = RequestedRuns(UserArgs)

\* C1 amended: with valid inputs and every run count given by --num-runs in
\* 0..255 (num_runs is a u8), the revm runner prints exactly N lines, N the
\* last run count given (1 without the flag), each after that run's
\* transact, and exits with code zero; it takes a bounded number of steps
\* and never stops before its end.
C1_RunCountU8 ==
  prog = "revm" =>
    /\ (/\ pc = "done"
        /\ EveryFlagHasValue(UserArgs)
        /\ Occurrences(UserArgs, "--contract-code-path") # {}
        /\ \A n \in RunCountsAsked(UserArgs) : n \in 0..255
        /\ ~EnvFailure)
       => /\ status = "exit0"
          /\ Len(stdout) = RequestedRuns(UserArgs)
          /\ Count(trace, "transact") = RequestedRuns(UserArgs)
    /\ Len(stdout) = Count(trace, "print")
    /\ PrintsFollowTransacts
    /\ RevmProgress

\* a run with --num-runs 02 that printed its two lines and exited zero
C1_Witness ==
  /\ prog = "revm" /\ pc = "done" /\ status = "exit0"
  /\ Occurrences(UserArgs, "--num-runs") # {}
  /\ RequestedRuns(UserArgs) = 2
  /\ Len(stdout) = 2

(***************************************************************************)
(* C8                                                                      *)
(***************************************************************************)
\* the settings are those of the last occurrence of each flag
SettingsAreLastValues ==
  /\ contract_code_path = LastValue(UserArgs, "--contract-code-path", "")
  /\ calldata_hex = LastValue(UserArgs, "--calldata", "")
  /\ num_runs = RequestedRuns(UserArgs)

\* the index stays within the list, on a token that stands where a flag is
\* looked for
IndexOnFlagPosition ==
  /\ i >= 1 /\ i <= Len(args)
  /\ (pc = "parse" /\ i < Len(args)) => InFlagPosition(UserArgs, i)

\* C8 as stated: whenever every recognised flag in flag position is followed
\* by a token, the parse loop runs to its end and leaves each setting equal
\* to the value of the last occurrence of its flag.
C8_AnyValue ==
  (/\ prog = "revm" /\ pc # "parse"
   /\ EveryFlagHasValue(UserArgs))
  => /\ ~ParseFailure
     /\ SettingsAreLastValues

\* C8 amended: whenever every recognised flag in flag position is followed
\* by a token and the token following each --num-runs is a decimal number in
\* 0..255, the parse loop runs to its end, its index only ever on tokens in
\* flag position, and leaves each setting equal to the value of the last
\* occurrence of its flag (the defaults "", "", 1 without one); otherwise
\* the loop panics.
C8_ValueParsesAsU8 ==
  prog = "revm" =>
    /\ IndexOnFlagPosition
    /\ pc # "parse" =>
         IF /\ EveryFlagHasValue(UserArgs)
            /\ \A n \in RunCountsAsked(UserArgs) : n \in 0..255
           THEN ~ParseFailure /\ SettingsAreLastValues
           ELSE ParseFailure
    /\ ParseProgress

\* the loop ended on a list that gives all three flags, the calldata being
\* a token that reads like a flag
C8_Witness ==
  /\ prog = "revm" /\ pc = "read"
  /\ \A f \in Flags : Occurrences(UserArgs, f) # {}
  /\ num_runs = 2
  /\ calldata_hex = "--num-runs"
  /\ contract_code_path = "02"

(***************************************************************************)
(* C2                                                                      *)
(***************************************************************************)
\* the ten operation names
TenOperations ==
  {"FpMont.add", "FpMont.mul", "Fp2Mont.mul", "Fp6Mont.mul", "Fp12Mont.mul",
   "G1.add", "G1.mul", "G2.add", "G2.mul", "Pairing"}

\* after its first two steps the trace of the crypto runner is
\* benchmark_operation, print, benchmark_operation, print, ...
CallsAlternateWithPrints ==
  \A k \in 3..Len(trace) :
    trace[k] = IF k = Len(trace) /\ pc = "done" THEN "exit"
               ELSE IF k % 2 = 1 THEN "benchmark_operation" ELSE "print"

\* C2: started with one of the ten operations and a --num-runs value that
\* parses as a u32 N, the crypto runner calls benchmark_operation N times,
\* prints one line after each call and exits with code zero, in a bounded
\* number of steps.
C2_CryptoRuns ==
  (/\ prog = "crypto"
   /\ operation_arg # <<>> /\ num_runs_arg # <<>>
   /\ operation_arg[1] \in TenOperations
   /\ ParseU32(num_runs_arg[1]).ok)
  => LET N == ParseU32(num_runs_arg[1]).val IN
     /\ DecimalValue(num_runs_arg[1]) >= 0 => N = DecimalValue(num_runs_arg[1])
     /\ status \in {"running", "exit0"}
     /\ stderr = <<>>
     /\ Len(stdout) = Count(trace, "print")
     /\ Len(stdout) <= Count(trace, "benchmark_operation")
     /\ Count(trace, "benchmark_operation") <= Len(stdout) + 1
     /\ Count(trace, "benchmark_operation") <= N
     /\ CallsAlternateWithPrints
     /\ pc = "done" => /\ status = "exit0"
                       /\ Count(trace, "benchmark_operation") = N
                       /\ Len(stdout) = N
     /\ pc # "done" => ENABLED CryptoNext
     /\ Len(trace) <= 3 + 2 * N

\* Pairing run three times to the end
C2_Witness ==
  /\ prog = "crypto" /\ pc = "done" /\ status = "exit0"
  /\ operation = "Pairing"
  /\ num_runs_arg = <<(<<"3">>)>>
  /\ Count(trace, "benchmark_operation") = 3
  /\ Len(stdout) = 3

(***************************************************************************)
(* C3                                                                      *)
(***************************************************************************)
\* C3 as stated: a driver ends normally or by a panic, never through a
\* check that reports an error of its own or exits with a chosen code.
C3_OnlyPanics ==
  prog \in {"revm", "crypto"} =>
    /\ status \in {"running", "exit0", "panic"}
    /\ stderr = <<>>

\* C3 amended: the revm runner ends normally or by a panic (an unwrap, or
\* an index out of bounds for a flag without value) and reports nothing of
\* its own.  The crypto runner panics only on a --num-runs value that does
\* not parse (expect); a missing flag or an operation name outside the ten
\* is rejected by the argument parser main configures, with an error
\* message and the parser's exit code, before anything is run.
C3_ParserRejects ==
  /\ prog = "revm" =>
       /\ status \in {"running", "exit0", "panic"}
       /\ stderr = <<>>
       /\ status = "panic" =>
            failure \in {"unwrap", "index out of bounds"}
       /\ (status = "panic" /\ failure = "index out of bounds")
            => (ParseFailure /\ ~EveryFlagHasValue(UserArgs))
  /\ prog = "crypto" =>
       LET rejected == \/ operation_arg = <<>>
                       \/ num_runs_arg = <<>>
                       \/ operation_arg[1] \notin TenOperations
       IN
       /\ status \in {"running", "exit0", "panic", "exit2"}
       /\ status = "panic" =>
            /\ failure = "expect"
            /\ ~ParseU32(num_runs_arg[1]).ok
            /\ stderr = <<>>
       /\ pc # "get_matches" =>
            (rejected <=> (status = "exit2" /\ stderr # <<>> /\ stdout = <<>>))
       /\ status # "exit2" => stderr = <<>>

\* the crypto runner given an unknown operation and a good run count
C3_Witness ==
  /\ prog = "crypto" /\ pc = "done"
  /\ operation_arg = <<"Fr.mul">>
  /\ num_runs_arg = <<(<<"1">>)>>
  /\ status = "exit2"
  /\ trace = <<"get_matches">>

(***************************************************************************)
(* C4                                                                      *)
(***************************************************************************)
\* the trace of benchmark_operation(op, N) is a prefix of
\* match, generate x N, timer_start, call x N, elapsed
BenchOrder ==
  \A k \in DOMAIN trace :
    trace[k] = IF k = 1 THEN "match"
               ELSE IF k <= 1 + internal_runs THEN "generate"
               ELSE IF k = 2 + internal_runs THEN "timer_start"
               ELSE IF k <= 2 + 2 * internal_runs THEN "call"
               ELSE "elapsed"

\* C4: for each of the ten operations and every internal_runs N, a run of
\* benchmark_operation generates N inputs for both vectors before the timer
\* starts, then applies the operation N times, call k to element k of both
\* vectors, and reads the elapsed time after the last call.
C4_BenchmarkOperation ==
  (prog = "bench" /\ operation \in TenOperations) =>
    /\ BenchOrder
    /\ Len(trace) <= 3 + 2 * internal_runs
    /\ status \in {"running", "returned"}
    /\ Count(trace, "timer_start") > 0 =>
         /\ Len(inputs_a) = internal_runs
         /\ Len(inputs_b) = internal_runs
         /\ rng = 2 * internal_runs
    /\ Len(inputs_a) = Count(trace, "generate")
    /\ Len(inputs_b) = Count(trace, "generate")
    /\ \A k \in DOMAIN inputs_a :
         /\ inputs_a[k] = [ty |-> OperandTypes(operation)[1],
                           draw |-> 2 * (k - 1)]
         /\ inputs_b[k] = [ty |-> OperandTypes(operation)[2],
                           draw |-> 2 * (k - 1) + 1]
    /\ Len(calls) = Count(trace, "call")
    /\ Len(calls) <= internal_runs
    /\ \A k \in DOMAIN calls :
         /\ calls[k].index = k - 1
         /\ calls[k].a = inputs_a[k]
         /\ calls[k].b = inputs_b[k]
    /\ Count(trace, "elapsed") > 0 => Len(calls) = internal_runs
    /\ pc = "done" <=> status = "returned"
    /\ pc # "done" => ENABLED BenchNext

\* G1.mul timed on the largest number of inputs drawn
C4_Witness ==
  /\ prog = "bench" /\ operation = "G1.mul" /\ status = "returned"
  /\ internal_runs >= 3
  /\ Len(calls) = internal_runs
  /\ calls[3].a.ty = "G1" /\ calls[3].b.ty = "Fr"
  /\ calls[3].a.draw = 4 /\ calls[3].b.draw = 5

(***************************************************************************)
(* C9                                                                      *)
(***************************************************************************)
\* C9: the value_parser list, the internal_runs entries and the arms of
\* benchmark_operation hold the same ten names, so no run of the crypto
\* runner takes the fallback internal_runs or reaches the unknown-operation
\* exit.
C9_SameTenNames ==
  /\ ValueParserOperations = BenchArms
  /\ ValueParserOperations = InternalRunsEntries
  /\ Cardinality(BenchArms) = 10
  /\ prog = "crypto" =>
       /\ status # "exit1"
       /\ failure # "unknown operation"
       /\ operation # "" =>
            /\ ~TakesFallback(operation)
            /\ BenchmarkOperationOutcome(operation) = "returns"
       /\ pc \in {"loop", "print"} =>
            /\ internal_runs = InternalRunsFor(operation)
            /\ internal_runs # 1000

\* a call of benchmark_operation made by main has returned
C9_Witness ==
  /\ prog = "crypto" /\ pc = "print"
  /\ operation = "G2.mul" /\ internal_runs = 800
  /\ Last(trace) = "benchmark_operation"

(***************************************************************************)
(* C5, C6: vocabulary.  EVM code is read as the EVM reads it: an opcode    *)
(* 0x60..0x7F (PUSH1..PUSH32) takes the next opcode - 0x5F bytes as its    *)
(* operand, CODECOPY (0x39) pops destOffset, offset, size and RETURN       *)
(* (0xF3) pops offset, size.                                               *)
(***************************************************************************)
IsPush(op) == op >= 96 /\ op <= 127

\* the instructions of a code: <<opcode, operand bytes>>, in order
RECURSIVE Instructions(_)
Instructions(code) ==
  IF Len(code) = 0 THEN <<>>
  ELSE IF IsPush(code[1]) /\ Len(code) >= 1 + (code[1] - 95)
    THEN <<[op |-> code[1], arg |-> SubSeq(code, 2, 1 + (code[1] - 95))]>>
           \o Instructions(SubSeq(code, 2 + (code[1] - 95), Len(code)))
  ELSE <<[op |-> code[1], arg |-> <<>>]>> \o Instructions(Tail(code))

\* the big-endian value of a byte string, as a usize
RECURSIVE BigEndian(_)
BigEndian(bytes) ==
  IF Len(bytes) = 0 THEN U(0, 0)
  ELSE LET rest == BigEndian(SubSeq(bytes, 1, Len(bytes) - 1)) IN
       U(rest.hi * 256 + rest.lo \div 256,
         (rest.lo % 256) * 256 + bytes[Len(bytes)])

\* the stack after the instructions (top first), with what CODECOPY and
\* RETURN popped
RECURSIVE Execute(_, _)
Execute(instrs, m) ==
  IF Len(instrs) = 0 \/ m.returned # <<>> THEN m
  ELSE LET ins == instrs[1] IN
       IF IsPush(ins.op)
         THEN Execute(Tail(instrs),
                      [m EXCEPT !.stack = <<BigEndian(ins.arg)>> \o @])
       ELSE IF ins.op = 57 /\ Len(m.stack) >= 3
         THEN Execute(Tail(instrs),
                      [m EXCEPT !.stack = SubSeq(@, 4, Len(@)),
                                !.copied = Append(@, [dest |-> m.stack[1],
                                                      from |-> m.stack[2],
                                                      size |-> m.stack[3]])])
       ELSE IF ins.op = 243 /\ Len(m.stack) >= 2
         THEN [m EXCEPT !.stack = SubSeq(@, 3, Len(@)),
                        !.returned = <<[from |-> m.stack[1],
                                        size |-> m.stack[2]]>>]
       ELSE [m EXCEPT !.returned = <<[from |-> U(0, 0), size |-> U(0, 0)]>>,
                      !.copied = <<>>]

Machine0 == [stack |-> <<>>, copied |-> <<>>, returned |-> <<>>]

\* 256^w as a usize, w in 1..4
Pow256(w) ==
  CASE w = 1 -> U(0, 256) [] w = 2 -> U(1, 0) [] w = 3 -> U(256, 0)
    [] w = 4 -> U(65536, 0)

ULess(a, b) == a.hi < b.hi \/ (a.hi = b.hi /\ a.lo < b.lo)

FitsU32(size) == ULess(size, Pow256(4))

\* the smallest width in 1..4 that holds size
MinWidth(size) ==
  CHOOSE w \in 1..4 :
    /\ ULess(size, Pow256(w))
    /\ \A v \in 1..(w - 1) : ~ULess(size, Pow256(v))

\* the deployment code sent by the one call of deploy_contract
SentCode == deployed[1].tx[1]

\* its constructor: what precedes the runtime bytes
SentConstructor ==
  SubSeq(SentCode.data, 1, Len(SentCode.data) - Len(contract_code.data))

IsSizePush(ins, size) ==
  /\ IsPush(ins.op)
  /\ BigEndian(ins.arg) = size

(***************************************************************************)
(* C5                                                                      *)
(***************************************************************************)
\* C5: for a runtime bytecode of length L <= 0xFFFFFFFF, deploy_contract
\* sends constructor ++ bytecode, the constructor being PUSH L, PUSH offset,
\* PUSH1 0, CODECOPY, PUSH L, PUSH1 0, RETURN with offset the length of the
\* constructor, so that the constructor copies the L bytes from offset to
\* memory 0 and returns them.
C5_ConstructorOffset ==
  (deployed # <<>> /\ FitsU32(contract_code.len)) =>
    /\ deployed[1].tx # <<>>
    /\ LET L == contract_code.len
           ctor == SentConstructor
           ins == Instructions(ctor)
           end == Execute(ins, Machine0)
       IN
       /\ SentCode.data = ctor \o contract_code.data
       /\ SentCode.len = UAddSmall(L, Len(ctor))
       /\ Len(ins) = 7
       /\ IsSizePush(ins[1], L)
       /\ IsPush(ins[2].op) /\ BigEndian(ins[2].arg) = ToUsize(Len(ctor))
       /\ ins[3] = [op |-> 96, arg |-> <<0>>]
       /\ ins[4] = [op |-> 57, arg |-> <<>>]
       /\ IsSizePush(ins[5], L)
       /\ ins[6] = [op |-> 96, arg |-> <<0>>]
       /\ ins[7] = [op |-> 243, arg |-> <<>>]
       /\ end.copied = <<[dest |-> U(0, 0), from |-> ToUsize(Len(ctor)),
                          size |-> L]>>
       /\ end.returned = <<[from |-> U(0, 0), size |-> L]>>
       /\ end.stack = <<>>
       /\ SubSeq(SentCode.data, Len(ctor) + 1,
                 Len(ctor) + Len(contract_code.data)) = contract_code.data

\* a bytecode of 0xFFFFFFFF bytes, whose constructor is the longest
C5_Witness ==
  /\ prog = "deploy" /\ deployed # <<>>
  /\ contract_code.len = U(65535, 65535)
  /\ deployed[1].tx # <<>>
  /\ Len(SentConstructor) = 18
  /\ SentConstructor[6] = 96 /\ SentConstructor[7] = 18

(***************************************************************************)
(* C6                                                                      *)
(***************************************************************************)
\* C6: for L <= 0xFFFFFFFF both size PUSHes are PUSHw with w the smallest
\* width in 1..4 holding L, their w operand bytes are L in big-endian, and
\* the two are identical; for a larger L deploy_contract returns
\* "Runtime code too large" and sends nothing.
C6_SizePushWidth ==
  deployed # <<>> =>
    IF FitsU32(contract_code.len)
      THEN /\ deployed[1].tx # <<>>
           /\ LET L == contract_code.len
                  w == MinWidth(L)
                  ins == Instructions(SentConstructor)
              IN
              /\ Len(ins) >= 5
              /\ ins[1].op = 95 + w
              /\ Len(ins[1].arg) = w
              /\ BigEndian(ins[1].arg) = L
              /\ \A k \in 1..w : ins[1].arg[k] \in 0..255
              /\ ins[5] = ins[1]
      ELSE /\ deployed[1].result = Err("Runtime code too large")
           /\ deployed[1].tx = <<>>
           /\ db = <<"caller">>

\* a bytecode of 0x1000000 bytes, the first length that needs PUSH4
C6_Witness ==
  /\ prog = "deploy" /\ deployed # <<>>
  /\ contract_code.len = U(256, 0)
  /\ SubSeq(SentConstructor, 1, 5) = <<99, 1, 0, 0, 0>>

(***************************************************************************)
(* C7                                                                      *)
(***************************************************************************)
RunCycle == <<"timer_start", "transact", "elapsed", "commit", "print">>

\* position of the one "build_evm" of the trace, 0 if there is none
BuiltAt ==
  IF Count(trace, "build_evm") = 0 THEN 0
  ELSE CHOOSE k \in DOMAIN trace : trace[k] = "build_evm"

Runs(n) == [k \in 1..n |-> "run"]

\* C7: the revm runner deploys once and builds one Evm, both before the
\* first run; every run is timer start, transact, elapsed, commit, print in
\* that order; and run k + 1 executes against the database left by the
\* deployment and the commits of runs 1..k.
C7_RunOrder ==
  prog = "revm" =>
    /\ Count(trace, "deploy") <= 1 /\ Len(deployed) = Count(trace, "deploy")
    /\ Count(trace, "build_evm") <= 1
    /\ evm_builds = Count(trace, "build_evm")
    /\ \A k \in DOMAIN trace :
         trace[k] \in {"timer_start", "transact", "elapsed", "commit", "print"}
           => /\ BuiltAt > 0 /\ BuiltAt < k
              /\ trace[BuiltAt - 1] = "deploy"
              /\ deployed[1].result.ok
              /\ trace[k] = RunCycle[((k - BuiltAt - 1) % 5) + 1]
    /\ \A k \in DOMAIN seen :
         seen[k] = <<"caller", "deploy">> \o Runs(k - 1)
    /\ Len(seen) = Count(trace, "transact")
    /\ BuiltAt > 0 =>
         db = <<"caller", "deploy">> \o Runs(Count(trace, "commit"))
    /\ pc = "loop" => /\ Count(trace, "commit") = run
                      /\ Len(stdout) = run
                      /\ pending = <<>>

\* the second run executed on the state the first one committed
C7_Witness ==
  /\ prog = "revm" /\ status = "exit0"
  /\ Len(seen) = 2
  /\ seen[2] = <<"caller", "deploy", "run">>
  /\ db = <<"caller", "deploy", "run", "run">>
====
